---- MODULE Spec2Model ----
(***************************************************************************)
(* Model of the game-state engine of snake_2d (src/src/main.rs): the       *)
(* snake body, the food cell, the direction, and the two entry points of   *)
(* the event loop, Game::update (one timer tick) and Game::pressed (one    *)
(* key press).  Rendering and window handling do not touch the state.      *)
(***************************************************************************)
EXTENDS Integers, Sequences, FiniteSets, TLC

(* The grid.  The source fixes both at 20 (main.rs:18-19); the model keeps *)
(* the names and scales the grid down so that the reachable states can be  *)
(* enumerated.  No definition below depends on the value 20.               *)
GRID_ROWS == 2
GRID_COLUMNS == 3

Direction == {"Right", "Left", "Up", "Down"}

(* Buttons that reach Game::pressed: the four arrow keys, Space, and any   *)
(* other button ("Other").                                                 *)
Button == {"Up", "Down", "Left", "Right", "Space", "Other"}

VARIABLES
    body,      \* Snake.body: sequence of <<x, y>>, head first
    dir,       \* Snake.dir
    food,      \* Game.food: <<x, y>>
    crashed,   \* TRUE once a panic has aborted the process
    lastOp,    \* history: which handler ran last and which branch it took
    lastKey,   \* history: the button of the last Game::pressed, else "none"
    pfBody,    \* history: the body place_food saw, if the last handler
               \*          completed a place_food; <<>> otherwise
    advDirs,   \* history: <<direction used by the previous advance,
               \*            direction used by the latest advance>> of the
               \*            current game ("none" where there was none)
    runTicks,  \* history: the advances made since the game started or the
               \*          last arrow key was pressed, whichever is later
    ret        \* the value returned by the Snake method called last under
               \* SpecFn; "none" if there is none

vars == <<body, dir, food, crashed, lastOp, lastKey, pfBody, advDirs,
          runTicks, ret>>

Range(s) == {s[i] : i \in 1..Len(s)}

----------------------------------------------------------------------------
(* Snake *)

\* Variant of Snake::init with the coordinates of the second part swapped
Snake_init_body_swapped == << <<0, 0>>, <<1, 0>> >>

\* Snake::init, the body
Snake_init_body == << <<0, 0>>, <<0, 1>> >>

\* Snake::init, the direction
Snake_init_dir == "Right"

\* Variant of update_direction that forgets the push_front
update_direction_nopush(b, d) == SubSeq(b, 1, Len(b) - 1)

\* Variant of update_direction that forgets the pop_back
update_direction_nopop(b, d) ==
    LET head == b[1]
        new_head == CASE d = "Left"  -> <<head[1] - 1, head[2]>>
                      [] d = "Right" -> <<head[1] + 1, head[2]>>
                      [] d = "Up"    -> <<head[1], head[2] - 1>>
                      [] d = "Down"  -> <<head[1], head[2] + 1>>
    IN  <<new_head>> \o b

\* Variant of update_direction with the offsets of Up and Down exchanged
update_direction_updown(b, d) ==
    LET head == b[1]
        new_head == CASE d = "Left"  -> <<head[1] - 1, head[2]>>
                      [] d = "Right" -> <<head[1] + 1, head[2]>>
                      [] d = "Up"    -> <<head[1], head[2] + 1>>
                      [] d = "Down"  -> <<head[1], head[2] - 1>>
        pushed == <<new_head>> \o b
    IN  SubSeq(pushed, 1, Len(pushed) - 1)

\* Snake::update_direction: push_front(new head), pop_back()
update_direction(b, d) ==
    LET head == b[1]
        new_head == CASE d = "Left"  -> <<head[1] - 1, head[2]>>
                      [] d = "Right" -> <<head[1] + 1, head[2]>>
                      [] d = "Up"    -> <<head[1], head[2] - 1>>
                      [] d = "Down"  -> <<head[1], head[2] + 1>>
        pushed == <<new_head>> \o b
    IN  SubSeq(pushed, 1, Len(pushed) - 1)

\* Variant of grow that pushes the new cell to the front
grow_front(b) ==
    LET tail == b[Len(b)]
    IN  <<<<tail[1] + 1, tail[2]>>>> \o b

\* Snake::grow: push_back(tail with x + 1)
grow(b) ==
    LET tail == b[Len(b)]
    IN  Append(b, <<tail[1] + 1, tail[2]>>)

\* Variant of check_eat that compares only the x coordinate
check_eat_x_only(b, f) == b[1][1] = f[1]

\* Snake::check_eat
check_eat(b, f) == b[1][1] = f[1] /\ b[1][2] = f[2]

\* Variant of collision that forgets to pop the head off the clone
collision_with_head(b) ==
    LET head == b[1]
    IN  \E i \in 1..Len(b) : b[i][1] = head[1] /\ b[i][2] = head[2]

\* Snake::collision: the head against the body with its front popped
collision(b) ==
    LET head == b[1]
        body_without_head == Tail(b)
    IN  \E i \in 1..Len(body_without_head) :
            body_without_head[i][1] = head[1] /\ body_without_head[i][2] = head[2]

\* Variant of out_of_bounds with the upper limits off by one
out_of_bounds_off_by_one(b) ==
    LET head == b[1]
    IN  head[1] < 0 \/ head[1] > GRID_COLUMNS \/ head[2] < 0 \/ head[2] > GRID_ROWS

\* Variant of out_of_bounds that forgets the lower limits
out_of_bounds_upper_only(b) ==
    LET head == b[1]
    IN  head[1] > GRID_COLUMNS - 1 \/ head[2] > GRID_ROWS - 1

\* Snake::out_of_bounds
out_of_bounds(b) ==
    LET head == b[1]
    IN  head[1] < 0 \/ head[1] > GRID_COLUMNS - 1 \/ head[2] < 0 \/ head[2] > GRID_ROWS - 1

----------------------------------------------------------------------------
(* Game *)

\* Variant of is_end that forgets the bounds check
is_end_collision_only(b) == collision(b)

\* Game::is_end
is_end(b) == collision(b) \/ out_of_bounds(b)

\* The cells in the order of the two loops of Game::place_food:
\* for x in 0..GRID_COLUMNS { for y in 0..GRID_ROWS { ... } }
grid_cells ==
    [k \in 1..(GRID_COLUMNS * GRID_ROWS) |->
        <<(k - 1) \div GRID_ROWS, (k - 1) % GRID_ROWS>>]

\* Variant of free_space that does not filter out the body
free_space_unfiltered(b) == grid_cells

\* Variant of free_space that only filters out the head
free_space_head_only(b) ==
    SelectSeq(grid_cells, LAMBDA c : ~(b[1][1] = c[1] /\ b[1][2] = c[2]))

\* Game::place_food, free_space: the cells no body part is on, in loop order
free_space(b) ==
    SelectSeq(grid_cells,
              LAMBDA c : ~(\E i \in 1..Len(b) : b[i][1] = c[1] /\ b[i][2] = c[2]))

\* rng.gen_range(low, high): a value in [low, high); panics if low >= high
gen_range(low, high) == low..(high - 1)

\* Game::place_food panics in gen_range when free_space has fewer than 2 cells
place_food_panics(b) == gen_range(1, Len(free_space(b))) = {}

\* Game::place_food: the cells it can assign to food, free_space[pos - 1]
\* (0-based) for pos drawn by gen_range(1, free_space.len())
place_food(b) ==
    {free_space(b)[(pos - 1) + 1] : pos \in gen_range(1, Len(free_space(b)))}

\* Variant of the match without the guards on last_direction
new_direction_unguarded(last_direction, btn) ==
    IF btn \in Direction THEN btn ELSE last_direction

\* Game::pressed, the match that computes the new direction
new_direction(last_direction, btn) ==
    CASE btn = "Up"    /\ last_direction # "Down"  -> "Up"
      [] btn = "Down"  /\ last_direction # "Up"    -> "Down"
      [] btn = "Left"  /\ last_direction # "Right" -> "Left"
      [] btn = "Right" /\ last_direction # "Left"  -> "Right"
      [] OTHER -> last_direction

\* Variant of the restart condition without the is_end check
restart_requested_always(btn, b) == btn = "Space"

\* Variant of the restart condition that accepts any button
restart_requested_any_button(btn, b) == is_end(b)

\* Game::pressed, the condition under which restart is called
restart_requested(btn, b) == btn = "Space" /\ is_end(b)

----------------------------------------------------------------------------
(* make_game *)
Init ==
    /\ body = Snake_init_body
    /\ dir = Snake_init_dir
    /\ food = <<GRID_COLUMNS \div 2, GRID_ROWS \div 2>>
    /\ crashed = FALSE
    /\ lastOp = "make_game"
    /\ lastKey = "none"
    /\ pfBody = <<>>
    /\ advDirs = <<"none", "none">>
    /\ runTicks = 0
    /\ ret = "none"

\* One more advance on the history counter; no straight run on the grid is
\* longer than GRID_COLUMNS + GRID_ROWS, where the counter stops.
CountedAdvance(n) == IF n < GRID_COLUMNS + GRID_ROWS THEN n + 1 ELSE n

(* Game::update, one timer tick *)
update ==
    /\ ~crashed
    /\ UNCHANGED ret
    /\ lastKey' = "none"
    /\ dir' = dir
    /\ IF is_end(body)
       THEN /\ lastOp' = "update_ended"
            /\ UNCHANGED <<body, food, crashed, advDirs, runTicks>>
            /\ pfBody' = <<>>
       ELSE IF check_eat(body, food)
       THEN LET grown == grow(body) IN
            IF place_food_panics(grown)
            THEN /\ lastOp' = "update_panic"
                 /\ body' = grown
                 /\ crashed' = TRUE
                 /\ pfBody' = <<>>
                 /\ UNCHANGED <<food, advDirs, runTicks>>
            ELSE /\ lastOp' = "update_eat"
                 /\ food' \in place_food(grown)
                 /\ pfBody' = grown
                 /\ body' = update_direction(grown, dir)
                 /\ advDirs' = <<advDirs[2], dir>>
                 /\ runTicks' = CountedAdvance(runTicks)
                 /\ UNCHANGED crashed
       ELSE /\ lastOp' = "update_move"
            /\ body' = update_direction(body, dir)
            /\ advDirs' = <<advDirs[2], dir>>
            /\ runTicks' = CountedAdvance(runTicks)
            /\ pfBody' = <<>>
            /\ UNCHANGED <<food, crashed>>

(* Game::pressed, one key press; Game::restart inlined *)
pressed(btn) ==
    /\ ~crashed
    /\ UNCHANGED ret
    /\ lastKey' = btn
    /\ IF restart_requested(btn, body)
       THEN LET panics == place_food_panics(Snake_init_body) IN
            /\ lastOp' = (IF panics THEN "restart_panic" ELSE "restart")
            /\ body' = Snake_init_body
            /\ dir' = Snake_init_dir
            /\ crashed' = panics
            /\ food' \in (IF panics THEN {food} ELSE place_food(Snake_init_body))
            /\ pfBody' = (IF panics THEN <<>> ELSE Snake_init_body)
            /\ advDirs' = <<"none", "none">>
            /\ runTicks' = 0
       ELSE /\ lastOp' = "pressed"
            /\ dir' = new_direction(dir, btn)
            /\ runTicks' = (IF btn \in Direction THEN 0 ELSE runTicks)
            /\ pfBody' = <<>>
            /\ UNCHANGED <<body, food, crashed, advDirs>>

Next == update \/ \E btn \in Button : pressed(btn)

Spec == Init /\ [][Next]_vars

----------------------------------------------------------------------------
(* The methods of Snake called on their own, on any snake: a second        *)
(* specification that draws a body and a direction and calls one method.   *)

\* longest body drawn
MaxFnLen == 3

\* coordinates drawn: the two cells on either side of each edge of the grid
FnCells ==
    {-1, 0, GRID_COLUMNS - 1, GRID_COLUMNS} \X {-1, 0, GRID_ROWS - 1, GRID_ROWS}

FnBodies == UNION {[1..n -> FnCells] : n \in 1..MaxFnLen}

InitFn ==
    /\ body \in FnBodies
    /\ dir = Snake_init_dir
    /\ food = <<GRID_COLUMNS \div 2, GRID_ROWS \div 2>>
    /\ crashed = FALSE
    /\ lastOp = "input"
    /\ lastKey = "none"
    /\ pfBody = <<>>
    /\ advDirs = <<"none", "none">>
    /\ runTicks = 0
    /\ ret = "none"

\* self.snake.out_of_bounds()
call_out_of_bounds ==
    /\ lastOp = "input"
    /\ lastOp' = "out_of_bounds"
    /\ ret' = out_of_bounds(body)
    /\ UNCHANGED <<body, dir, food, crashed, lastKey, pfBody, advDirs, runTicks>>

\* self.snake.collision()
call_collision ==
    /\ lastOp = "input"
    /\ lastOp' = "collision"
    /\ ret' = collision(body)
    /\ UNCHANGED <<body, dir, food, crashed, lastKey, pfBody, advDirs, runTicks>>

\* self.snake.update_direction(), with self.dir = d
call_update_direction(d) ==
    /\ lastOp = "input"
    /\ lastOp' = "update_direction"
    /\ dir' = d
    /\ body' = update_direction(body, d)
    /\ UNCHANGED <<food, crashed, lastKey, pfBody, advDirs, runTicks, ret>>

NextFn ==
    \/ call_out_of_bounds
    \/ call_collision
    \/ \E d \in Direction : call_update_direction(d)

SpecFn == InitFn /\ [][NextFn]_vars

----------------------------------------------------------------------------
(* The vocabulary of the properties, stated independently of the code. *)

InGrid(c) == c[1] \in 0..(GRID_COLUMNS - 1) /\ c[2] \in 0..(GRID_ROWS - 1)

HeadOnBody == \E i \in 2..Len(body) : body[i] = body[1]

\* Ended: the head is on another body cell or outside the grid
Ended == HeadOnBody \/ ~InGrid(body[1])

Opposite(c, d) ==
    \/ c = "Up" /\ d = "Down"
    \/ c = "Down" /\ d = "Up"
    \/ c = "Left" /\ d = "Right"
    \/ c = "Right" /\ d = "Left"

Offset(c, d) ==
    CASE d = "Left"  -> <<c[1] - 1, c[2]>>
      [] d = "Right" -> <<c[1] + 1, c[2]>>
      [] d = "Up"    -> <<c[1], c[2] - 1>>
      [] d = "Down"  -> <<c[1], c[2] + 1>>

FreeCells(b) == {c \in (0..(GRID_COLUMNS - 1)) \X (0..(GRID_ROWS - 1)) : c \notin Range(b)}

UpdateOps == {"update_ended", "update_eat", "update_move", "update_panic"}

\* the step is a tick that ran to completion
TickStep == lastOp' \in UpdateOps /\ ~crashed'

----------------------------------------------------------------------------
\* C1: in every reachable state the snake body has length >= 2.
C1_BodyLengthAtLeast2 == Len(body) >= 2

\* an eating tick has grown the body and the advance has kept the length
C1_Witness == lastOp = "update_eat" /\ Len(body) = 3

\* C2: between two consecutive advancing ticks of one game, whatever key
\* presses arrive in between, the second advance never uses the exact
\* opposite of the direction the first advance used.
C2_NoInstantReversal == ~Opposite(advDirs[1], advDirs[2])

\* C3: every free cell is a possible result of place_food: for the body a
\* completed place_food saw, the set of its possible results is exactly the
\* set of grid cells not occupied by that body.
C3_AnyFreeCellSelectable ==
    pfBody # <<>> => place_food(pfBody) = FreeCells(pfBody)

\* C4: immediately after a place_food that completes, the food cell is
\* inside the grid and on no cell of the body place_food saw (the cell
\* appended by grow included).
C4_FoodOffBodyAfterPlaceFood ==
    pfBody # <<>> => InGrid(food) /\ \A i \in 1..Len(pfBody) : pfBody[i] # food

\* an eating tick placed food while the cell appended by grow was in the grid
C4_Witness ==
    /\ lastOp = "update_eat"
    /\ pfBody # <<>>
    /\ InGrid(pfBody[Len(pfBody)])
    /\ pfBody[Len(pfBody)] \notin Range(SubSeq(pfBody, 1, Len(pfBody) - 1))

\* C5: while the game is Ended, a tick changes neither body, food nor
\* direction.
C5_EndedTicksAreNoOps ==
    [][(Ended /\ lastOp' \in UpdateOps) =>
          (body' = body /\ food' = food /\ dir' = dir)]_vars

\* a tick ran while the head was outside the grid
C5_Witness == lastOp = "update_ended" /\ ~InGrid(body[1])

\* C6: a direction request d with current direction c leaves c if d is the
\* exact opposite of c, and otherwise sets the direction to d.
C6_DirectionRequest ==
    [][(lastOp' = "pressed" /\ lastKey' \in Direction) =>
          dir' = (IF Opposite(dir, lastKey') THEN dir ELSE lastKey')]_vars

\* a request for Left was ignored because the direction was Right
C6_Witness == lastOp = "pressed" /\ lastKey = "Left" /\ dir = "Right"

\* C7: a restart request made while Ended yields a Running state with body
\* [(0,0),(0,1)], direction Right and food inside the grid off the body.
C7_RestartWhenEnded ==
    [][(lastKey' = "Space" /\ Ended) =>
          /\ body' = << <<0, 0>>, <<0, 1>> >>
          /\ dir' = "Right"
          /\ InGrid(food')
          /\ food' \notin Range(body')
          /\ ~Ended'
          /\ ~crashed']_vars

\* a restart was honoured
C7_Witness == lastOp = "restart" /\ lastKey = "Space" /\ ~Ended

\* C8: a restart request made while Running changes neither body, food nor
\* direction.
C8_RestartWhenRunningIgnored ==
    [][(lastKey' = "Space" /\ ~Ended) =>
          (body' = body /\ food' = food /\ dir' = dir)]_vars

\* Space was pressed in a running game that had already advanced
C8_Witness ==
    lastOp = "pressed" /\ lastKey = "Space" /\ ~Ended /\ advDirs[2] # "none"

C11_PlaceFoodFailsIffNoFreeCell ==
    /\ lastOp \in {"update_panic", "restart_panic"} => FreeCells(body) = {}
    /\ pfBody # <<>> => FreeCells(pfBody) # {} /\ food \in FreeCells(pfBody)

\* C12: out_of_bounds returns true if and only if the head's x is outside
\* [0, GRID_COLUMNS) or the head's y is outside [0, GRID_ROWS).
C12_OutOfBoundsIff ==
    lastOp = "out_of_bounds" =>
        (ret = TRUE <=> (~(0 <= body[1][1] /\ body[1][1] < GRID_COLUMNS)
                         \/ ~(0 <= body[1][2] /\ body[1][2] < GRID_ROWS)))

\* out_of_bounds answered true for a head one column right of the grid
C12_Witness ==
    lastOp = "out_of_bounds" /\ body[1] = <<GRID_COLUMNS, 0>> /\ ret = TRUE

\* C13: collision returns true if and only if the head cell equals a body
\* cell at one of the positions 2..length, for every body of length >= 1,
\* and it leaves the body as it was.
C13_CollisionIff ==
    [][lastOp' = "collision" =>
          /\ ret' = (\E i \in 2..Len(body) : body[i] = body[1])
          /\ body' = body]_vars

\* collision answered true for a head that equals the third cell only
C13_Witness ==
    /\ lastOp = "collision"
    /\ ret = TRUE
    /\ Len(body) = 3
    /\ body[2] # body[1]
    /\ body[3] = body[1]

\* C14: update_direction on a non-empty body B with direction d yields
\* head(B) offset by one unit in d, followed by B without its last cell;
\* the length is unchanged.
C14_Advance ==
    [][lastOp' = "update_direction" =>
          /\ body' = <<Offset(body[1], dir')>> \o SubSeq(body, 1, Len(body) - 1)
          /\ Len(body') = Len(body)]_vars

\* update_direction moved a body of three cells up, out of the grid
C14_Witness ==
    /\ lastOp = "update_direction"
    /\ dir = "Up"
    /\ Len(body) = 3
    /\ body[1] = <<0, -1>>
    /\ body[2] = <<0, 0>>

\* C15: a direction request, accepted or ignored, Running or Ended, leaves
\* body and food unchanged and so does not change whether the game is
\* Ended; Ended is left only by a restart request.
C15_DirectionRequestFrame ==
    [][/\ lastKey' \in Direction =>
            (body' = body /\ food' = food /\ (Ended' <=> Ended))
       /\ (Ended /\ ~Ended') => (lastKey' = "Space" /\ lastOp' = "restart")]_vars

\* a direction request was accepted while the game was Ended
C15_Witness ==
    lastOp = "pressed" /\ lastKey = "Up" /\ dir = "Up" /\ Ended

\* C16: between events the food cell is inside the grid and on no body
\* cell other than the head, and whenever the head is on the food cell the
\* game is Running.
C16_FoodBetweenEvents ==
    ~crashed =>
        /\ InGrid(food)
        /\ \A i \in 2..Len(body) : body[i] # food
        /\ (body[1] = food => ~Ended)

\* place_food put the food on the cell the head advanced to in the same tick
C16_Witness == lastOp = "update_eat" /\ body[1] = food /\ Len(body) >= 3

\* C17: between events every body cell other than the head is inside the
\* grid and the head is at most one cell outside it; the cell appended by
\* grow does not survive the tick.
C17_BodyInsideGrid ==
    ~crashed =>
        /\ \A i \in 2..Len(body) : InGrid(body[i])
        /\ body[1][1] \in (-1)..GRID_COLUMNS
        /\ body[1][2] \in (-1)..GRID_ROWS

\* an eating tick completed although grow had appended a cell off the grid
C17_Witness ==
    /\ lastOp = "update_eat"
    /\ ~InGrid(pfBody[Len(pfBody)])
    /\ body = <<body[1]>> \o SubSeq(pfBody, 1, Len(pfBody) - 1)

MaxColumnsRows == IF GRID_COLUMNS > GRID_ROWS THEN GRID_COLUMNS ELSE GRID_ROWS

\* C18: when ticks follow one another with no direction request in between
\* (and place_food does not fail), the game is Ended after at most
\* max(GRID_COLUMNS, GRID_ROWS) of them: a run of that many advances leaves
\* the game Ended, so no longer run exists.
C18_EndedWithinMaxTicks ==
    ~crashed =>
        /\ runTicks <= MaxColumnsRows
        /\ (runTicks = MaxColumnsRows => Ended)

\* the longest run: max(GRID_COLUMNS, GRID_ROWS) advances took the head
\* across the whole grid and out of it
C18_Witness ==
    /\ runTicks = MaxColumnsRows
    /\ lastOp \in {"update_move", "update_eat"}
    /\ ~InGrid(body[1])
====
